---- MODULE Spec2Model ----
(***************************************************************************)
(* Model of the daily PTR pipeline (Scripts/daily_ptr_checker.py) and of   *)
(* the House PDF extraction adapter (Scripts/ptr_pdf_processor.py).        *)
(*                                                                         *)
(* One run of main() is a sequence of stages; each stage is one action.    *)
(* The collaborators (scrapers, browser session, LLM scanners, database)   *)
(* are not part of the repository: every call to one of them is an input   *)
(* drawn from the outcomes the call can have (a value or a raise).         *)
(***************************************************************************)
EXTENDS Integers, Sequences, FiniteSets, TLC

\* ---------------------------------------------------------------- bounds
MaxLimit   == 2     \* largest --limit drawn
MaxFilings == 2     \* longest House scrape result drawn
MaxLinks   == 2     \* longest Senate scrape result drawn
MaxRows    == 2     \* most rows one extraction yields

\* ------------------------------------------------------- python values
None == "<None>"

\* d.get(k): the value under k, None when the key is absent
Get(d, k) == IF k \in DOMAIN d THEN d[k] ELSE None

\* d.get(k, default)
GetOr(d, k, default) == IF k \in DOMAIN d THEN d[k] ELSE default

\* python truthiness of a doc_id / url: None and the empty string are falsy
Falsy(x) == x = None \/ x = ""

Max2(a, b) == IF a >= b THEN a ELSE b

\* outcome of a collaborator call that raised
Raise == "<raise>"

\* ------------------------------------------------------------ the inputs
\* filing descriptors the House scraper can report; the third has no doc_id
HouseFilingUniverse ==
    { [doc_id |-> "d1", pdf_url |-> "hu1", member_name |-> "HA", office |-> "House"],
      [doc_id |-> "d2", pdf_url |-> "hu2", member_name |-> "HB", office |-> "House"],
      [doc_id |-> "",   pdf_url |-> "hu3", member_name |-> "HC", office |-> "House"] }

\* items the Senate scraper can report: a 3-tuple, a mapping, a 3-tuple with
\* no url
SenateItemUniverse ==
    { [shape |-> "tuple3", doc_id |-> "s1", url |-> "su1", member_name |-> "SA"],
      [shape |-> "dict",   doc_id |-> "s2", url |-> "su2", member_name |-> "SB"],
      [shape |-> "tuple3", doc_id |-> "s3", url |-> "",    member_name |-> "SC"] }

\* the known-ID sets the persistent store may return: nothing yet, or one
\* House and one Senate filing already stored
KnownSets == { {}, {"d1", "s1"} }

\* sequences over S without repetition, of length at most n
InjSeqs(S, n) ==
    UNION { { q \in [1..k -> S] : \A i, j \in 1..k : i # j => q[i] # q[j] } : k \in 0..n }

\* rows as the LLM parsers return them (parse_llm_transactions): the second
\* row shape lacks the ticker and the raw line
RawRowA == [ticker |-> "TKA", company_name |-> "CoA", transaction_type_full |-> "Purchase",
            transaction_date_str |-> "2025-01-02", amount_low |-> 1001, amount_high |-> 15000,
            owner_code |-> "SP", raw_llm_line |-> "lineA"]
RawRowB == [company_name |-> "CoB", transaction_type_full |-> "Sale",
            transaction_date_str |-> "2025-02-03", amount_low |-> 15001, amount_high |-> 50000,
            owner_code |-> "JT"]

ParsedRows(n) == [i \in 1..n |-> IF i % 2 = 1 THEN RawRowA ELSE RawRowB]

\* what one House extraction can do: the adapter call raises, or
\* process_ptr_pdf runs with these collaborator results (is the HOR scanner
\* imported, what the scan does, does the download succeed, what the
\* downloaded document holds).
\* A filing without rows is the one whose scan raises: the fallback path
\* returns the same empty list as a scan that parses to nothing.
HouseOutcomes ==
    { [kind |-> "raise"] }
    \cup { [kind |-> "pdf", scanner_available |-> TRUE,
            scan |-> [kind |-> "rows", rows |-> ParsedRows(n)],
            download_ok |-> TRUE, pdf |-> [kind |-> "pages", pages |-> << <<"a">> >>]] : n \in 1..MaxRows }
    \cup { [kind |-> "pdf", scanner_available |-> TRUE, scan |-> [kind |-> "raise"],
            download_ok |-> TRUE, pdf |-> [kind |-> "pages", pages |-> << <<"a">> >>]] }

\* what one Senate extraction can do: a call raises, the page text is blank
\* (no rows), or the LLM answer parses to n rows
SenateOutcomes ==
    { [kind |-> "raise"], [kind |-> "no_text"] }
    \cup { [kind |-> "rows", rows |-> ParsedRows(n)] : n \in 1..MaxRows }

\* --------------------------------------------------- ptr_pdf_processor.py
\* the field mapping copying only the fields the parsed row has
NormalizedRow_only_present(t) ==
    LET from == [transaction_date |-> "transaction_date_str", ticker |-> "ticker",
                 asset_name |-> "company_name", transaction_type |-> "transaction_type_full",
                 amount_low |-> "amount_low", amount_high |-> "amount_high",
                 owner |-> "owner_code", comment |-> "raw_llm_line"]
    IN  [k \in { f \in DOMAIN from : from[f] \in DOMAIN t } |-> t[from[k]]]

\* the field mapping of _normalize_transactions, for one parsed row
NormalizedRow(t) ==
    [transaction_date |-> Get(t, "transaction_date_str"),
     ticker           |-> Get(t, "ticker"),
     asset_name       |-> Get(t, "company_name"),
     transaction_type |-> Get(t, "transaction_type_full"),
     amount_low       |-> Get(t, "amount_low"),
     amount_high      |-> Get(t, "amount_high"),
     owner            |-> Get(t, "owner_code"),
     comment          |-> GetOr(t, "raw_llm_line", "")]

\* _normalize_transactions, given what hor_parse_llm_transactions returned
_normalize_transactions(parser_available, parsed) ==
    IF ~parser_available THEN << >>
    ELSE [i \in 1..Len(parsed) |-> NormalizedRow(parsed[i])]

\* a text is a sequence of characters; these are the white ones
Whitespace == {" ", "\n"}

RECURSIVE lstrip(_)
lstrip(text) ==
    IF text # << >> /\ Head(text) \in Whitespace THEN lstrip(Tail(text)) ELSE text

RECURSIVE rstrip(_)
rstrip(text) ==
    IF text # << >> /\ text[Len(text)] \in Whitespace
    THEN rstrip(SubSeq(text, 1, Len(text) - 1)) ELSE text

\* str.strip()
strip(text) == rstrip(lstrip(text))

RECURSIVE join_lines(_)
\* "\n".join(texts)
join_lines(texts) ==
    IF texts = << >> THEN << >>
    ELSE IF Len(texts) = 1 THEN texts[1]
    ELSE texts[1] \o << "\n" >> \o join_lines(Tail(texts))

\* _extract_pdf_text: the non-empty page texts joined by newlines, the empty
\* text when fitz raises
_extract_pdf_text(pdf) ==
    IF pdf.kind = "raise" THEN << >>
    ELSE join_lines(SelectSeq(pdf.pages, LAMBDA page_text : page_text # << >>))

\* process_ptr_pdf with the except clause around _download taken out: the
\* failed download leaves the function as an exception
process_ptr_pdf_download_unguarded(o) ==
    IF o.scanner_available /\ o.scan.kind = "rows"
    THEN [transactions |-> _normalize_transactions(o.scanner_available, o.scan.rows)]
    ELSE IF ~o.download_ok THEN [raised |-> TRUE]
         ELSE LET text == _extract_pdf_text(o.pdf)
              IN  IF strip(text) = << >> \/ ~o.scanner_available
                  THEN [transactions |-> << >>]
                  ELSE [transactions |-> << >>]

\* process_ptr_pdf under the collaborator results o; never raises
process_ptr_pdf(o) ==
    IF o.scanner_available /\ o.scan.kind = "rows"
    THEN [transactions |-> _normalize_transactions(o.scanner_available, o.scan.rows)]
    ELSE \* the scanner is missing, or it or the parser raised: the fallback path
         IF ~o.download_ok THEN [transactions |-> << >>]
         ELSE LET text == _extract_pdf_text(o.pdf)
              IN  IF strip(text) = << >> \/ ~o.scanner_available
                  THEN [transactions |-> << >>]
                  ELSE [transactions |-> << >>]

\* --------------------------------------------------- daily_ptr_checker.py
RECURSIVE filter_from_no_known_test(_, _, _, _, _)
\* filter_from without the test against existing_doc_ids
filter_from_no_known_test(filings, existing_doc_ids, limit, i, new_filings) ==
    IF i > Len(filings) THEN new_filings
    ELSE LET f      == filings[i]
             doc_id == Get(f, "doc_id")
         IN  IF Falsy(doc_id)
             THEN filter_from_no_known_test(filings, existing_doc_ids, limit, i + 1, new_filings)
             ELSE LET nf == Append(new_filings, f)
                  IN  IF 0 < limit /\ limit <= Len(nf)
                      THEN nf
                      ELSE filter_from_no_known_test(filings, existing_doc_ids, limit, i + 1, nf)

RECURSIVE filter_from_limit_off_by_one(_, _, _, _, _)
\* filter_from with the limit test after the next append: limit < len
filter_from_limit_off_by_one(filings, existing_doc_ids, limit, i, new_filings) ==
    IF i > Len(filings) THEN new_filings
    ELSE LET f      == filings[i]
             doc_id == Get(f, "doc_id")
         IN  IF Falsy(doc_id)
             THEN filter_from_limit_off_by_one(filings, existing_doc_ids, limit, i + 1, new_filings)
             ELSE IF doc_id \notin existing_doc_ids
             THEN LET nf == Append(new_filings, f)
                  IN  IF 0 < limit /\ limit < Len(nf)
                      THEN nf
                      ELSE filter_from_limit_off_by_one(filings, existing_doc_ids, limit, i + 1, nf)
             ELSE filter_from_limit_off_by_one(filings, existing_doc_ids, limit, i + 1, new_filings)

RECURSIVE filter_from_keeps_malformed(_, _, _, _, _)
\* filter_from without the skip of a descriptor that has no doc_id
filter_from_keeps_malformed(filings, existing_doc_ids, limit, i, new_filings) ==
    IF i > Len(filings) THEN new_filings
    ELSE LET f      == filings[i]
             doc_id == Get(f, "doc_id")
         IN  IF doc_id \notin existing_doc_ids
             THEN LET nf == Append(new_filings, f)
                  IN  IF 0 < limit /\ limit <= Len(nf)
                      THEN nf
                      ELSE filter_from_keeps_malformed(filings, existing_doc_ids, limit, i + 1, nf)
             ELSE filter_from_keeps_malformed(filings, existing_doc_ids, limit, i + 1, new_filings)

RECURSIVE filter_from(_, _, _, _, _)
\* the loop of filter_new_filings from position i, new_filings collected so far
filter_from(filings, existing_doc_ids, limit, i, new_filings) ==
    IF i > Len(filings) THEN new_filings
    ELSE LET f      == filings[i]
             doc_id == Get(f, "doc_id")
         IN  IF Falsy(doc_id)
             THEN filter_from(filings, existing_doc_ids, limit, i + 1, new_filings)
             ELSE IF doc_id \notin existing_doc_ids
             THEN LET nf == Append(new_filings, f)
                  IN  IF 0 < limit /\ limit <= Len(nf)
                      THEN nf
                      ELSE filter_from(filings, existing_doc_ids, limit, i + 1, nf)
             ELSE filter_from(filings, existing_doc_ids, limit, i + 1, new_filings)

filter_new_filings(filings, existing_doc_ids, limit) ==
    filter_from(filings, existing_doc_ids, limit, 1, << >>)

\* tx = dict(t); tx["doc_id"] = ...; ... : the row with the filing's metadata
TagRow(t, doc_id, member_name, office, pdf_url) ==
    [k \in (DOMAIN t) \cup {"doc_id", "member_name", "office", "pdf_url"} |->
        CASE k = "doc_id"      -> doc_id
          [] k = "member_name" -> member_name
          [] k = "office"      -> office
          [] k = "pdf_url"     -> pdf_url
          [] OTHER             -> t[k]]

RECURSIVE house_loop_stops_at_failure(_, _, _, _)
\* house_loop with the try around the whole loop: the first failure ends it
house_loop_stops_at_failure(new_filings, outcomes, idx, acc) ==
    IF idx > Len(new_filings) THEN acc
    ELSE LET filing      == new_filings[idx]
             doc_id      == Get(filing, "doc_id")
             pdf_url     == Get(filing, "pdf_url")
             member_name == Get(filing, "member_name")
             office      == Get(filing, "office")
             o           == outcomes[idx]
             called      == Append(acc.calls, <<"process_ptr_pdf", doc_id>>)
         IN  IF o.kind = "raise"
             THEN [acc EXCEPT !.calls = called,
                              !.log = Append(@, <<"Failed processing", doc_id>>)]
             ELSE LET transactions == process_ptr_pdf(o).transactions
                      tagged == [i \in 1..Len(transactions) |->
                                   TagRow(transactions[i], doc_id, member_name, office, pdf_url)]
                  IN  house_loop_stops_at_failure(new_filings, outcomes, idx + 1,
                         [acc EXCEPT !.calls = called,
                                     !.transactions = @ \o tagged])

RECURSIVE house_loop(_, _, _, _)
\* the loop of process_filings_to_transactions from position idx; acc holds
\* the rows collected, the extraction calls made and the failures logged
house_loop(new_filings, outcomes, idx, acc) ==
    IF idx > Len(new_filings) THEN acc
    ELSE LET filing      == new_filings[idx]
             doc_id      == Get(filing, "doc_id")
             pdf_url     == Get(filing, "pdf_url")
             member_name == Get(filing, "member_name")
             office      == Get(filing, "office")
             o           == outcomes[idx]
             called      == Append(acc.calls, <<"process_ptr_pdf", doc_id>>)
         IN  IF o.kind = "raise"
             THEN house_loop(new_filings, outcomes, idx + 1,
                     [acc EXCEPT !.calls = called,
                                 !.log = Append(@, <<"Failed processing", doc_id>>)])
             ELSE LET transactions == process_ptr_pdf(o).transactions
                      tagged == [i \in 1..Len(transactions) |->
                                   TagRow(transactions[i], doc_id, member_name, office, pdf_url)]
                  IN  house_loop(new_filings, outcomes, idx + 1,
                         [acc EXCEPT !.calls = called,
                                     !.transactions = @ \o tagged])

process_filings_to_transactions(new_filings, outcomes) ==
    house_loop(new_filings, outcomes, 1,
               [transactions |-> << >>, calls |-> << >>, log |-> << >>])

\* the (doc_id, url, member_name) tuple senate_scrape_links keeps for an item
LinkTuple(item) ==
    [doc_id |-> Get(item, "doc_id"), url |-> Get(item, "url"),
     member_name |-> Get(item, "member_name")]

RECURSIVE normalize_links(_, _, _)
\* the normalisation loop of senate_scrape_links: 3-tuples and mappings are
\* kept, anything else is dropped
normalize_links(links, i, normalized) ==
    IF i > Len(links) THEN normalized
    ELSE LET item == links[i]
         IN  IF item.shape = "tuple3" \/ item.shape = "dict"
             THEN normalize_links(links, i + 1, Append(normalized, LinkTuple(item)))
             ELSE normalize_links(links, i + 1, normalized)

\* senate_scrape_links, given what scrape_all_ptr_links did; a raise is
\* caught and logged, and the result is the empty list
senate_scrape_links(scraper_available, result) ==
    IF ~scraper_available THEN [links |-> << >>, calls |-> << >>, errors |-> << >>]
    ELSE IF result.kind = "raise"
    THEN [links |-> << >>, calls |-> << <<"scrape_all_ptr_links">> >>,
          errors |-> << "senate_scrape" >>]
    ELSE [links |-> normalize_links(result.items, 1, << >>),
          calls |-> << <<"scrape_all_ptr_links">> >>, errors |-> << >>]

\* the canonical record the Senate loop appends for one parsed row
SenateRow(t, doc_id, member_name, url) ==
    [doc_id           |-> doc_id,
     member_name      |-> member_name,
     office           |-> "Senate",
     pdf_url          |-> url,
     ticker           |-> Get(t, "ticker"),
     asset_name       |-> Get(t, "company_name"),
     transaction_type |-> Get(t, "transaction_type_full"),
     transaction_date |-> Get(t, "transaction_date_str"),
     amount_low       |-> Get(t, "amount_low"),
     amount_high      |-> Get(t, "amount_high"),
     owner            |-> Get(t, "owner_code"),
     comment          |-> GetOr(t, "raw_llm_line", "")]

RECURSIVE senate_loop_counts_successes(_, _, _, _, _, _)
\* senate_loop with count += 1 after the extraction instead of before it: a
\* link that fails or has no text does not use up quota
senate_loop_counts_successes(links, max_count, outcomes, i, count, acc) ==
    IF i > Len(links) THEN acc
    ELSE LET doc_id      == links[i].doc_id
             url         == links[i].url
             member_name == links[i].member_name
             k           == IF acc.count + 1 <= Len(outcomes) THEN acc.count + 1
                            ELSE Len(outcomes)
             o           == outcomes[k]
         IN  IF Falsy(doc_id) \/ Falsy(url)
             THEN senate_loop_counts_successes(links, max_count, outcomes, i + 1, count, acc)
             ELSE IF 0 < max_count /\ max_count <= count
             THEN acc
             ELSE LET called == Append(acc.calls, <<"driver.get", doc_id>>)
                  IN  IF o.kind = "raise"
                      THEN senate_loop_counts_successes(links, max_count, outcomes, i + 1, count,
                              [acc EXCEPT !.calls = called, !.count = k,
                                          !.log = Append(@, <<"Senate processing failed", doc_id>>)])
                      ELSE IF o.kind = "no_text"
                      THEN senate_loop_counts_successes(links, max_count, outcomes, i + 1, count,
                              [acc EXCEPT !.calls = called, !.count = k])
                      ELSE LET parsed == o.rows
                               rows   == [n \in 1..Len(parsed) |->
                                            SenateRow(parsed[n], doc_id, member_name, url)]
                           IN  senate_loop_counts_successes(links, max_count, outcomes, i + 1,
                                  count + 1,
                                  [acc EXCEPT !.calls = called, !.count = k,
                                              !.transactions = @ \o rows])

RECURSIVE senate_loop(_, _, _, _, _, _)
\* the per-link loop of senate_links_to_transactions from position i, with
\* count links submitted so far; outcomes[k] is what the k-th extraction does
senate_loop(links, max_count, outcomes, i, count, acc) ==
    IF i > Len(links) THEN acc
    ELSE LET doc_id      == links[i].doc_id
             url         == links[i].url
             member_name == links[i].member_name
             o           == outcomes[count + 1]
         IN  IF Falsy(doc_id) \/ Falsy(url)
             THEN senate_loop(links, max_count, outcomes, i + 1, count, acc)
             ELSE IF 0 < max_count /\ max_count <= count
             THEN acc
             ELSE LET called == Append(acc.calls, <<"driver.get", doc_id>>)
                  IN  IF o.kind = "raise"
                      THEN senate_loop(links, max_count, outcomes, i + 1, count + 1,
                              [acc EXCEPT !.calls = called, !.count = count + 1,
                                          !.log = Append(@, <<"Senate processing failed", doc_id>>)])
                      ELSE IF o.kind = "no_text"
                      THEN senate_loop(links, max_count, outcomes, i + 1, count + 1,
                              [acc EXCEPT !.calls = called, !.count = count + 1])
                      ELSE LET parsed == o.rows
                               rows   == [k \in 1..Len(parsed) |->
                                            SenateRow(parsed[k], doc_id, member_name, url)]
                           IN  senate_loop(links, max_count, outcomes, i + 1, count + 1,
                                  [acc EXCEPT !.calls = called, !.count = count + 1,
                                              !.transactions = @ \o rows])

\* senate_links_to_transactions with the quit at the end of the function
\* instead of in a finally: a raise of verify_session skips it
senate_links_to_transactions_quit_at_end(links, max_count, helpers_available, session, outcomes) ==
    IF ~helpers_available
    THEN [raised |-> FALSE, transactions |-> << >>, calls |-> << >>, log |-> << >>,
          errors |-> << >>, count |-> 0]
    ELSE IF ~session.driver_ok
    THEN [raised |-> TRUE, transactions |-> << >>,
          calls |-> << <<"webdriver.Chrome">> >>, log |-> << >>,
          errors |-> << "senate_session" >>, count |-> 0]
    ELSE IF ~session.verify_ok
    THEN [raised |-> TRUE, transactions |-> << >>,
          calls |-> << <<"webdriver.Chrome">>, <<"verify_session">> >>,
          log |-> << >>, errors |-> << "senate_verify" >>, count |-> 0]
    ELSE LET r == senate_loop(links, max_count, outcomes, 1, 0,
                     [transactions |-> << >>,
                      calls |-> << <<"webdriver.Chrome">>, <<"verify_session">> >>,
                      log |-> << >>, count |-> 0])
         IN  [raised |-> FALSE, transactions |-> r.transactions,
              calls |-> Append(r.calls, <<"driver.quit">>), log |-> r.log,
              errors |-> << >>, count |-> r.count]

\* senate_links_to_transactions; session says whether creating the browser
\* session and verifying it succeed. raised: the call ends in an exception;
\* count: the links submitted to extraction.
senate_links_to_transactions(links, max_count, helpers_available, session, outcomes) ==
    IF ~helpers_available
    THEN [raised |-> FALSE, transactions |-> << >>, calls |-> << >>, log |-> << >>,
          errors |-> << >>, count |-> 0]
    ELSE IF ~session.driver_ok
    THEN [raised |-> TRUE, transactions |-> << >>,
          calls |-> << <<"webdriver.Chrome">> >>, log |-> << >>,
          errors |-> << "senate_session" >>, count |-> 0]
    ELSE IF ~session.verify_ok
    THEN [raised |-> TRUE, transactions |-> << >>,
          calls |-> << <<"webdriver.Chrome">>, <<"verify_session">>, <<"driver.quit">> >>,
          log |-> << >>, errors |-> << "senate_verify" >>, count |-> 0]
    ELSE LET r == senate_loop(links, max_count, outcomes, 1, 0,
                     [transactions |-> << >>,
                      calls |-> << <<"webdriver.Chrome">>, <<"verify_session">> >>,
                      log |-> << >>, count |-> 0])
         IN  [raised |-> FALSE, transactions |-> r.transactions,
              calls |-> Append(r.calls, <<"driver.quit">>), log |-> r.log,
              errors |-> << >>, count |-> r.count]

\* persist_transactions without the dry_run test
persist_transactions_always_writes(transactions, dry_run, write_ok) ==
    IF write_ok
    THEN [raised |-> FALSE, calls |-> << <<"process_transactions_batch">> >>,
          stats |-> [db_stats |-> TRUE]]
    ELSE [raised |-> TRUE, calls |-> << <<"process_transactions_batch">> >>,
          stats |-> [unbound |-> TRUE]]

\* persist_transactions; write_ok: the database client and its batch write
\* succeed. A dry run returns the summary without touching the database.
persist_transactions(transactions, dry_run, write_ok) ==
    IF dry_run
    THEN [raised |-> FALSE, calls |-> << >>,
          stats |-> [dry_run |-> TRUE, transactions |-> Len(transactions)]]
    ELSE IF write_ok
    THEN [raised |-> FALSE, calls |-> << <<"process_transactions_batch">> >>,
          stats |-> [db_stats |-> TRUE]]
    ELSE [raised |-> TRUE, calls |-> << <<"process_transactions_batch">> >>,
          stats |-> [unbound |-> TRUE]]

\* ------------------------------------------------------------ main()
\* The stages of main() as functions of the run's state s (a record of the
\* variables below) and of the collaborator results the stage meets.
\* pc: "scrape_house" -> "load_known_ids" -> "process_house" ->
\* "scrape_senate" -> "process_senate" -> "persist" -> "done"; "abort" is the
\* early return of step 2, "crashed" an exception leaving main().

\* step 1: scrape House (optional), and the optional JSON dump of the scrape
main_scrape_house(s, result, save_scrape_json, save_ok) ==
    IF ~s.include_house THEN [s EXCEPT !.pc = "load_known_ids"]
    ELSE IF result.kind = "raise"
    THEN [s EXCEPT !.pc = "crashed",
                   !.calls = Append(@, <<"scrape_ptr_filings">>),
                   !.errors = Append(@, "house_scrape")]
    ELSE IF save_scrape_json /\ ~save_ok
    THEN [s EXCEPT !.pc = "crashed",
                   !.filings = result.filings,
                   !.calls = Append(@, <<"scrape_ptr_filings">>),
                   !.errors = Append(@, "save_json")]
    ELSE [s EXCEPT !.pc = "load_known_ids",
                   !.filings = result.filings,
                   !.calls = Append(@, <<"scrape_ptr_filings">>)]

\* step 2 without the return: a failed read leaves an empty known-ID set
main_load_known_ids_goes_on(s, result) ==
    IF result.kind = "raise"
    THEN [s EXCEPT !.pc = "process_house",
                   !.calls = Append(@, <<"get_existing_doc_ids">>),
                   !.errors = Append(@, "known_ids")]
    ELSE [s EXCEPT !.pc = "process_house",
                   !.existing_doc_ids = result.ids,
                   !.calls = Append(@, <<"get_existing_doc_ids">>)]

\* step 2: fetch the existing doc_ids; a failure is logged and main returns
main_load_known_ids(s, result) ==
    IF result.kind = "raise"
    THEN [s EXCEPT !.pc = "abort",
                   !.calls = Append(@, <<"get_existing_doc_ids">>),
                   !.errors = Append(@, "known_ids")]
    ELSE [s EXCEPT !.pc = "process_house",
                   !.existing_doc_ids = result.ids,
                   !.calls = Append(@, <<"get_existing_doc_ids">>)]

\* step 3 writing the House transactions to the store as soon as it has them
main_process_house_persists_early(s, outcomes) ==
    IF s.include_house /\ s.filings # << >>
    THEN LET new_filings == filter_new_filings(s.filings, s.existing_doc_ids, s.limit)
         IN  IF new_filings # << >>
             THEN LET r == process_filings_to_transactions(new_filings, outcomes)
                      w == IF r.transactions # << >> /\ ~s.dry_run
                           THEN << <<"process_transactions_batch">> >> ELSE << >>
                  IN  [s EXCEPT !.pc = "scrape_senate",
                                !.new_filings = new_filings,
                                !.house_outcomes = SubSeq(outcomes, 1, Len(new_filings)),
                                !.house_transactions = r.transactions,
                                !.all_transactions = @ \o r.transactions,
                                !.calls = @ \o r.calls \o w,
                                !.log = @ \o r.log]
             ELSE [s EXCEPT !.pc = "scrape_senate"]
    ELSE [s EXCEPT !.pc = "scrape_senate"]

\* step 3 adding the doc_ids it processed to the known-ID set
main_process_house_marks_known(s, outcomes) ==
    IF s.include_house /\ s.filings # << >>
    THEN LET new_filings == filter_new_filings(s.filings, s.existing_doc_ids, s.limit)
         IN  IF new_filings # << >>
             THEN LET r == process_filings_to_transactions(new_filings, outcomes)
                  IN  [s EXCEPT !.pc = "scrape_senate",
                                !.new_filings = new_filings,
                                !.existing_doc_ids =
                                    @ \cup { new_filings[i].doc_id : i \in DOMAIN new_filings },
                                !.house_outcomes = SubSeq(outcomes, 1, Len(new_filings)),
                                !.house_transactions = r.transactions,
                                !.all_transactions = @ \o r.transactions,
                                !.calls = @ \o r.calls,
                                !.log = @ \o r.log]
             ELSE [s EXCEPT !.pc = "scrape_senate"]
    ELSE [s EXCEPT !.pc = "scrape_senate"]

\* step 3: House processing
main_process_house(s, outcomes) ==
    IF s.include_house /\ s.filings # << >>
    THEN LET new_filings == filter_new_filings(s.filings, s.existing_doc_ids, s.limit)
         IN  IF new_filings # << >>
             THEN LET r == process_filings_to_transactions(new_filings, outcomes)
                  IN  [s EXCEPT !.pc = "scrape_senate",
                                !.new_filings = new_filings,
                                !.house_outcomes = SubSeq(outcomes, 1, Len(new_filings)),
                                !.house_transactions = r.transactions,
                                !.all_transactions = @ \o r.transactions,
                                !.calls = @ \o r.calls,
                                !.log = @ \o r.log]
             ELSE [s EXCEPT !.pc = "scrape_senate"]
    ELSE [s EXCEPT !.pc = "scrape_senate"]

\* step 4, first half, skipped altogether in a dry run
main_scrape_senate_not_in_dry_run(s, result) ==
    IF s.include_senate /\ s.senate_available /\ ~s.dry_run
    THEN LET r == senate_scrape_links(s.senate_available, result)
         IN  [s EXCEPT !.pc = IF r.links # << >> THEN "process_senate" ELSE "persist",
                       !.s_links = r.links,
                       !.calls = @ \o r.calls,
                       !.errors = @ \o r.errors]
    ELSE [s EXCEPT !.pc = "persist"]

\* step 4, first half: the Senate scrape, when Senate is enabled and its
\* modules were imported
main_scrape_senate(s, result) ==
    IF s.include_senate /\ s.senate_available
    THEN LET r == senate_scrape_links(s.senate_available, result)
         IN  [s EXCEPT !.pc = IF r.links # << >> THEN "process_senate" ELSE "persist",
                       !.s_links = r.links,
                       !.calls = @ \o r.calls,
                       !.errors = @ \o r.errors]
    ELSE [s EXCEPT !.pc = "persist"]

\* the quota main() hands to the Senate stage
SenateQuota(limit, include_house, all_transactions) ==
    LET remaining == IF limit > 0 THEN Max2(0, limit - Len(all_transactions)) ELSE 0
    IN  IF include_house /\ remaining > 0 THEN remaining
        ELSE IF limit > 0 THEN limit ELSE 0

\* the Senate filter without the test against existing_doc_ids
SenateFilter_no_known_test(links, existing_doc_ids) ==
    LET keep(l) == ~Falsy(l.doc_id)
    IN  SelectSeq(links, keep)

\* the filter main() applies to the scraped Senate links
SenateFilter(links, existing_doc_ids) ==
    LET keep(l) == ~Falsy(l.doc_id) /\ l.doc_id \notin existing_doc_ids
    IN  SelectSeq(links, keep)

\* step 4, second half: filter the links, compute the quota, process them
main_process_senate(s, session, outcomes) ==
    LET s_links   == SenateFilter(s.s_links, s.existing_doc_ids)
        max_count == SenateQuota(s.limit, s.include_house, s.all_transactions)
        r == senate_links_to_transactions(s_links, max_count, s.senate_available,
                                          session, outcomes)
    IN  [s EXCEPT !.pc = IF r.raised THEN "crashed" ELSE "persist",
                  !.s_links = s_links,
                  !.max_count = max_count,
                  !.senate_outcomes = SubSeq(outcomes, 1, r.count),
                  !.senate_transactions = r.transactions,
                  !.all_transactions = @ \o r.transactions,
                  !.calls = @ \o r.calls,
                  !.log = @ \o r.log,
                  !.errors = @ \o r.errors]

\* the end of main() without the return on an empty list
main_persist_even_if_empty(s, write_ok) ==
    LET r == persist_transactions(s.all_transactions, s.dry_run, write_ok)
    IN  [s EXCEPT !.pc = IF r.raised THEN "crashed" ELSE "done",
                  !.stats = r.stats,
                  !.calls = @ \o r.calls,
                  !.errors = IF r.raised THEN Append(@, "write") ELSE @]

\* the end of main(): nothing extracted means a plain return, otherwise step 5
main_persist(s, write_ok) ==
    IF s.all_transactions = << >> THEN [s EXCEPT !.pc = "done"]
    ELSE LET r == persist_transactions(s.all_transactions, s.dry_run, write_ok)
         IN  [s EXCEPT !.pc = IF r.raised THEN "crashed" ELSE "done",
                       !.stats = r.stats,
                       !.calls = @ \o r.calls,
                       !.errors = IF r.raised THEN Append(@, "write") ELSE @]

\* ------------------------------------------------------------ the state
VARIABLES
    pc,                \* the stage main() is at
    limit,             \* max(0, args.limit)
    include_house,     \* args.house
    include_senate,    \* args.senate
    senate_available,  \* senate_scraper and senate_llm were imported
    dry_run,           \* args.dry_run
    filings,           \* the House scrape result
    existing_doc_ids,  \* the known-ID set read in step 2
    new_filings,       \* the House filings that passed the filter
    s_links,           \* the Senate links, scraped and then filtered
    max_count,         \* the quota handed to the Senate stage, -1 before
    house_transactions,  \* what the House stage returned
    senate_transactions, \* what the Senate stage returned
    all_transactions,  \* the combined transaction list
    stats,             \* what persist_transactions returned
    calls,             \* the collaborator calls made so far, in order
    log,               \* doc_ids of the per-filing failures logged
    errors,            \* the collaborator calls that raised, in order
    house_outcomes,    \* what each House extraction did
    senate_outcomes,   \* what each Senate extraction did
    twin,              \* a second run: same inputs, the other write mode
    f_pc,              \* a single call of filter_new_filings: "idle", "call", "returned"
    f_filings,         \* its filings argument
    f_known,           \* its existing_doc_ids argument
    f_limit,           \* its limit argument
    f_result,          \* what it returned
    p_pc,              \* a single call of process_ptr_pdf: "idle", "call", "returned"
    p_input,           \* what its collaborators do during the call
    p_result           \* what it returned

progvars == << pc, limit, include_house, include_senate, senate_available, dry_run,
               filings, existing_doc_ids, new_filings, s_links, max_count,
               house_transactions, senate_transactions, all_transactions, stats, calls, log, errors,
               house_outcomes, senate_outcomes >>

vars == << pc, limit, include_house, include_senate, senate_available, dry_run,
           filings, existing_doc_ids, new_filings, s_links, max_count,
           house_transactions, senate_transactions, all_transactions, stats, calls, log, errors,
           house_outcomes, senate_outcomes, twin,
           f_pc, f_filings, f_known, f_limit, f_result,
           p_pc, p_input, p_result >>

fvars == << f_pc, f_filings, f_known, f_limit, f_result >>

pvars == << p_pc, p_input, p_result >>

\* the run's state as one record
Cur ==
    [pc |-> pc, limit |-> limit, include_house |-> include_house,
     include_senate |-> include_senate, senate_available |-> senate_available,
     dry_run |-> dry_run, filings |-> filings, existing_doc_ids |-> existing_doc_ids,
     new_filings |-> new_filings, s_links |-> s_links, max_count |-> max_count,
     house_transactions |-> house_transactions,
     senate_transactions |-> senate_transactions,
     all_transactions |-> all_transactions, stats |-> stats, calls |-> calls,
     log |-> log, errors |-> errors, house_outcomes |-> house_outcomes,
     senate_outcomes |-> senate_outcomes]

\* the run's next state is the record n
Install(n) ==
    /\ pc' = n.pc
    /\ limit' = n.limit
    /\ include_house' = n.include_house
    /\ include_senate' = n.include_senate
    /\ senate_available' = n.senate_available
    /\ dry_run' = n.dry_run
    /\ filings' = n.filings
    /\ existing_doc_ids' = n.existing_doc_ids
    /\ new_filings' = n.new_filings
    /\ s_links' = n.s_links
    /\ max_count' = n.max_count
    /\ house_transactions' = n.house_transactions
    /\ senate_transactions' = n.senate_transactions
    /\ all_transactions' = n.all_transactions
    /\ stats' = n.stats
    /\ calls' = n.calls
    /\ log' = n.log
    /\ errors' = n.errors
    /\ house_outcomes' = n.house_outcomes
    /\ senate_outcomes' = n.senate_outcomes
    /\ UNCHANGED fvars
    /\ UNCHANGED pvars

\* main() after argument parsing, before step 1
StartState(lim, house, senate, available, dry) ==
    [pc |-> "scrape_house", limit |-> lim, include_house |-> house,
     include_senate |-> senate, senate_available |-> available, dry_run |-> dry,
     filings |-> << >>, existing_doc_ids |-> {}, new_filings |-> << >>,
     s_links |-> << >>, max_count |-> -1, house_transactions |-> << >>,
     senate_transactions |-> << >>, all_transactions |-> << >>,
     stats |-> [unbound |-> TRUE], calls |-> << >>, log |-> << >>, errors |-> << >>,
     house_outcomes |-> << >>, senate_outcomes |-> << >>]

\* the run starts in state n, its twin in state t
RunStarts(n, t) ==
    /\ pc = n.pc /\ limit = n.limit /\ include_house = n.include_house
    /\ include_senate = n.include_senate
    /\ senate_available = n.senate_available /\ dry_run = n.dry_run
    /\ filings = n.filings /\ existing_doc_ids = n.existing_doc_ids
    /\ new_filings = n.new_filings /\ s_links = n.s_links
    /\ max_count = n.max_count /\ all_transactions = n.all_transactions
    /\ house_transactions = n.house_transactions
    /\ senate_transactions = n.senate_transactions
    /\ stats = n.stats /\ calls = n.calls /\ log = n.log /\ errors = n.errors
    /\ house_outcomes = n.house_outcomes
    /\ senate_outcomes = n.senate_outcomes
    /\ twin = t

FilterIdle ==
    f_pc = "idle" /\ f_filings = << >> /\ f_known = {} /\ f_limit = 0 /\ f_result = << >>

PdfIdle ==
    p_pc = "idle" /\ p_input = [kind |-> "none"] /\ p_result = [transactions |-> << >>]

Init ==
    /\ \E args_limit \in -1..MaxLimit, house \in BOOLEAN, senate \in BOOLEAN,
          available \in BOOLEAN, dry \in BOOLEAN :
           LET lim == Max2(0, args_limit)
           IN  RunStarts(StartState(lim, house, senate, available, dry),
                         StartState(lim, house, senate, available, ~dry))
    /\ FilterIdle
    /\ PdfIdle

HouseScrapeResults ==
    { [kind |-> "raise"] }
    \cup { [kind |-> "filings", filings |-> q] : q \in InjSeqs(HouseFilingUniverse, MaxFilings) }

KnownIdResults ==
    { [kind |-> "raise"] } \cup { [kind |-> "ids", ids |-> K] : K \in KnownSets }

SenateScrapeResults ==
    { [kind |-> "raise"] }
    \cup { [kind |-> "links", items |-> q] : q \in InjSeqs(SenateItemUniverse, MaxLinks) }

\* the browser session: created and verified, verification raises, or the
\* creation itself raises
Sessions ==
    { [driver_ok |-> TRUE,  verify_ok |-> TRUE],
      [driver_ok |-> TRUE,  verify_ok |-> FALSE],
      [driver_ok |-> FALSE, verify_ok |-> FALSE] }

Min2(a, b) == IF a <= b THEN a ELSE b

\* the extraction calls the House stage is about to make: the collaborator
\* results are drawn for these calls only
HouseCalls ==
    IF include_house
    THEN Len(filter_new_filings(filings, existing_doc_ids, limit)) ELSE 0

\* the most extraction calls the Senate stage can make
SenateCalls ==
    LET kept   == SenateFilter(s_links, existing_doc_ids)
        usable == Cardinality({ i \in DOMAIN kept : ~Falsy(kept[i].url) })
        quota  == SenateQuota(limit, include_house, all_transactions)
    IN  IF quota > 0 THEN Min2(usable, quota) ELSE usable

\* the twin meets the same collaborator results at the same stage
ScrapeHouse ==
    /\ pc = "scrape_house"
    /\ \E result \in HouseScrapeResults, save \in BOOLEAN, save_ok \in BOOLEAN :
        /\ Install(main_scrape_house(Cur, result, save, save_ok))
        /\ twin' = IF twin.pc = pc
                   THEN main_scrape_house(twin, result, save, save_ok) ELSE twin

LoadKnownIds ==
    /\ pc = "load_known_ids"
    /\ \E result \in KnownIdResults :
        /\ Install(main_load_known_ids(Cur, result))
        /\ twin' = IF twin.pc = pc THEN main_load_known_ids(twin, result) ELSE twin

ProcessHouse ==
    /\ pc = "process_house"
    /\ \E outcomes \in [1..HouseCalls -> HouseOutcomes] :
        /\ Install(main_process_house(Cur, outcomes))
        /\ twin' = IF twin.pc = pc THEN main_process_house(twin, outcomes) ELSE twin

ScrapeSenate ==
    /\ pc = "scrape_senate"
    /\ \E result \in SenateScrapeResults :
        /\ Install(main_scrape_senate(Cur, result))
        /\ twin' = IF twin.pc = pc THEN main_scrape_senate(twin, result) ELSE twin

ProcessSenate ==
    /\ pc = "process_senate"
    /\ \E session \in Sessions, outcomes \in [1..SenateCalls -> SenateOutcomes] :
        /\ Install(main_process_senate(Cur, session, outcomes))
        /\ twin' = IF twin.pc = pc
                   THEN main_process_senate(twin, session, outcomes) ELSE twin

Persist ==
    /\ pc = "persist"
    /\ \E write_ok \in BOOLEAN :
        /\ Install(main_persist(Cur, write_ok))
        /\ twin' = IF twin.pc = pc THEN main_persist(twin, write_ok) ELSE twin

Next ==
    \/ ScrapeHouse
    \/ LoadKnownIds
    \/ ProcessHouse
    \/ ScrapeSenate
    \/ ProcessSenate
    \/ Persist

Spec == Init /\ [][Next]_vars

\* ------------------------------------- filter_new_filings on its own
MaxFilterLen == 3   \* longest filing list handed to the filter

\* descriptors for the filter: two share a doc_id, three have none
FilterUniverse ==
    { [doc_id |-> "d1", pdf_url |-> "hu1", member_name |-> "HA", office |-> "House"],
      [doc_id |-> "d2", pdf_url |-> "hu2", member_name |-> "HB", office |-> "House"],
      [doc_id |-> "d1", pdf_url |-> "hu4", member_name |-> "HD", office |-> "House"],
      [doc_id |-> "",   pdf_url |-> "hu3", member_name |-> "HC", office |-> "House"],
      [doc_id |-> None, pdf_url |-> "hu5", member_name |-> "HE", office |-> "House"],
      [pdf_url |-> "hu6", member_name |-> "HF", office |-> "House"] }

FilterKnownUniverse == {"d1", "d2"}

SeqsUpTo(S, n) == UNION { [1..k -> S] : k \in 0..n }

InitFilter ==
    /\ RunStarts(StartState(0, FALSE, FALSE, FALSE, FALSE),
                 StartState(0, FALSE, FALSE, FALSE, TRUE))
    /\ f_pc = "call"
    /\ f_filings \in SeqsUpTo(FilterUniverse, MaxFilterLen)
    /\ f_known \in SUBSET FilterKnownUniverse
    /\ f_limit \in 0..MaxLimit
    /\ f_result = << >>
    /\ PdfIdle

\* the call returns; the function assigns to neither argument
FilterCall ==
    /\ f_pc = "call"
    /\ f_result' = filter_new_filings(f_filings, f_known, f_limit)
    /\ f_pc' = "returned"
    /\ UNCHANGED << f_filings, f_known, f_limit >>
    /\ UNCHANGED progvars
    /\ UNCHANGED twin
    /\ UNCHANGED pvars

NextFilter == FilterCall

SpecFilter == InitFilter /\ [][NextFilter]_vars

\* ------------------------------------------ process_ptr_pdf on its own
MaxPages == 2   \* most pages of a downloaded document

\* what get_text() can return for a page: nothing, white space, text
PageTexts == { << >>, << " " >>, << "a" >> }

\* what the primary path can do when the scanner is imported: the scanner
\* raises, the parser raises on its answer, or the answer parses to n rows
ScanResults ==
    { [kind |-> "raise"], [kind |-> "parse_raise"] }
    \cup { [kind |-> "rows", rows |-> ParsedRows(n)] : n \in 0..MaxRows }

\* what fitz makes of the downloaded bytes: it raises, or it reads the pages
PdfDocuments ==
    { [kind |-> "raise"] }
    \cup { [kind |-> "pages", pages |-> q] : q \in SeqsUpTo(PageTexts, MaxPages) }

\* the collaborator results of one call; without the scanner nothing is scanned
PdfInputs ==
    { [kind |-> "pdf", scanner_available |-> a, scan |-> sc, download_ok |-> d, pdf |-> doc] :
        a \in {TRUE}, sc \in ScanResults, d \in BOOLEAN, doc \in PdfDocuments }
    \cup
    { [kind |-> "pdf", scanner_available |-> a, scan |-> sc, download_ok |-> d, pdf |-> doc] :
        a \in {FALSE}, sc \in { [kind |-> "none"] }, d \in BOOLEAN, doc \in PdfDocuments }

InitPdf ==
    /\ RunStarts(StartState(0, FALSE, FALSE, FALSE, FALSE),
                 StartState(0, FALSE, FALSE, FALSE, TRUE))
    /\ FilterIdle
    /\ p_pc = "call"
    /\ p_input \in PdfInputs
    /\ p_result = [transactions |-> << >>]

\* the call returns
PdfCall ==
    /\ p_pc = "call"
    /\ p_result' = process_ptr_pdf(p_input)
    /\ p_pc' = "returned"
    /\ UNCHANGED p_input
    /\ UNCHANGED progvars
    /\ UNCHANGED twin
    /\ UNCHANGED fvars

NextPdf == PdfCall

SpecPdf == InitPdf /\ [][NextPdf]_vars

\* ------------------------------------------------------------ the claims
Range(q) == { q[i] : i \in DOMAIN q }

\* how many calls named name the call sequence c holds
CountCalls(c, name) == Cardinality({ i \in DOMAIN c : c[i][1] = name })

\* filings submitted to extraction by each stage
HouseSubmitted  == CountCalls(calls, "process_ptr_pdf")
SenateSubmitted == CountCalls(calls, "driver.get")

ExtractionCalls(c) == CountCalls(c, "process_ptr_pdf") + CountCalls(c, "driver.get")
WriteCalls(c)      == CountCalls(c, "process_transactions_batch")

\* the collaborator failure that ended the run, when it crashed
CrashCause == IF pc = "crashed" /\ errors # << >> THEN errors[Len(errors)] ELSE "none"

\* C1: with a limit L > 0 and both sources enabled, the filings the House
\* stage submits to extraction plus those the Senate stage submits never
\* exceed L.
C1_JointCeiling ==
    (limit > 0 /\ include_house /\ include_senate)
        => HouseSubmitted + SenateSubmitted <= limit

\* C2: with L > 0 and House enabled the quota handed to the Senate stage is
\* max(0, L - h), h the number of new House filings processed in this run;
\* with House disabled it is L.
C2_SenateQuota ==
    (max_count # -1 /\ limit > 0)
        => IF include_house
           THEN max_count = Max2(0, limit - Len(new_filings))
           ELSE max_count = limit

\* C4: a scrape that raises (House or Senate) degrades that source to zero
\* filings; it never ends the run.
C4_ScrapeFailureDegrades ==
    CrashCause \notin {"house_scrape", "senate_scrape"}

\* C5: once the known-ID read has succeeded, an error of the Senate stage
\* (creating or verifying the browser session) does not leave main(): the run
\* goes on to PERSIST.
C5_SourceErrorContained ==
    CrashCause \notin {"senate_session", "senate_verify"}

\* C6: if the known-ID read fails the run ends at once, with no extraction
\* call, no write and nothing extracted, whichever sources are enabled.
C6_AbortBeforeExtraction ==
    "known_ids" \in Range(errors)
        => /\ pc = "abort"
           /\ ExtractionCalls(calls) = 0
           /\ WriteCalls(calls) = 0
           /\ CountCalls(calls, "scrape_all_ptr_links") = 0
           /\ CountCalls(calls, "webdriver.Chrome") = 0
           /\ all_transactions = << >>

\* the read failed although both sources were enabled and House had filings
C6_Witness ==
    /\ pc = "abort"
    /\ include_house /\ include_senate /\ senate_available
    /\ \E i \in DOMAIN filings : ~Falsy(Get(filings[i], "doc_id"))

\* C7: in every state, every transaction of the combined list carries a
\* doc_id that is not in the known-ID set read at the start of the run.
C7_NoKnownFiling ==
    \A i \in DOMAIN all_transactions :
        all_transactions[i].doc_id \notin existing_doc_ids

\* both stages contributed rows while both had a known filing to leave out
C7_Witness ==
    /\ \E i \in DOMAIN all_transactions : all_transactions[i].office = "House"
    /\ \E i \in DOMAIN all_transactions : all_transactions[i].office = "Senate"
    /\ \E i \in DOMAIN filings : Get(filings[i], "doc_id") \in existing_doc_ids
    /\ "s1" \in existing_doc_ids
    /\ \E i \in DOMAIN calls : calls[i] = <<"scrape_all_ptr_links">>

\* C8: a dry run with a non-empty combined list never calls the write
\* operation, and its summary is dry_run = true with the length of the list.
C8_DryRunNoWrite ==
    (dry_run /\ all_transactions # << >>)
        => /\ WriteCalls(calls) = 0
           /\ pc = "done" =>
                stats = [dry_run |-> TRUE, transactions |-> Len(all_transactions)]

C8_Witness ==
    /\ pc = "done" /\ dry_run /\ Len(all_transactions) >= 2
    /\ stats = [dry_run |-> TRUE, transactions |-> Len(all_transactions)]

RECURSIVE Flatten(_)
\* the concatenation of a sequence of sequences
Flatten(ss) == IF ss = << >> THEN << >> ELSE Head(ss) \o Flatten(Tail(ss))

\* the rows one non-failing House filing contributes: what the extraction
\* returned, each row carrying the filing's own four metadata fields
HouseRowsOf(filing, o) ==
    LET rows == process_ptr_pdf(o).transactions
    IN  [k \in 1..Len(rows) |->
            [doc_id           |-> filing.doc_id,
             member_name      |-> filing.member_name,
             office           |-> filing.office,
             pdf_url          |-> filing.pdf_url,
             ticker           |-> rows[k].ticker,
             asset_name       |-> rows[k].asset_name,
             transaction_type |-> rows[k].transaction_type,
             transaction_date |-> rows[k].transaction_date,
             amount_low       |-> rows[k].amount_low,
             amount_high      |-> rows[k].amount_high,
             owner            |-> rows[k].owner,
             comment          |-> rows[k].comment]]

HouseExpected ==
    Flatten([i \in 1..Len(new_filings) |->
                IF house_outcomes[i].kind = "raise" THEN << >>
                ELSE HouseRowsOf(new_filings[i], house_outcomes[i])])

HouseFailuresExpected ==
    Flatten([i \in 1..Len(new_filings) |->
                IF house_outcomes[i].kind = "raise"
                THEN << <<"Failed processing", new_filings[i].doc_id>> >> ELSE << >>])

\* the Senate links the per-link loop submits: well-formed, and within the
\* quota when there is one
SenateWellFormed(i) == ~Falsy(s_links[i].doc_id) /\ ~Falsy(s_links[i].url)
SenateSubmittedAt(i) ==
    /\ SenateWellFormed(i)
    /\ \/ max_count <= 0
       \/ Cardinality({ j \in 1..(i - 1) : SenateWellFormed(j) }) < max_count

\* a Senate row reduced to its filing tags and the asset that identifies it
SenateTags(r) == << r.doc_id, r.member_name, r.office, r.pdf_url, r.asset_name >>

\* what the extraction of the submitted link at position i did
SenateOutcomeAt(i) ==
    senate_outcomes[Cardinality({ j \in 1..i : SenateWellFormed(j) })]

SenateExpected ==
    Flatten([i \in 1..Len(s_links) |->
                IF SenateSubmittedAt(i) /\ SenateOutcomeAt(i).kind = "rows"
                THEN [k \in 1..Len(SenateOutcomeAt(i).rows) |->
                        << s_links[i].doc_id, s_links[i].member_name, "Senate",
                           s_links[i].url, SenateOutcomeAt(i).rows[k].company_name >>]
                ELSE << >>])

SenateFailuresExpected ==
    Flatten([i \in 1..Len(s_links) |->
                IF SenateSubmittedAt(i) /\ SenateOutcomeAt(i).kind = "raise"
                THEN << <<"Senate processing failed", s_links[i].doc_id>> >> ELSE << >>])

IsHouseFailure(e)  == e[1] = "Failed processing"
IsSenateFailure(e) == e[1] = "Senate processing failed"

HouseStageRan == new_filings # << >>
SenateLoopRan ==
    /\ max_count # -1
    /\ "senate_session" \notin Range(errors)
    /\ "senate_verify" \notin Range(errors)

\* C3: whichever filings' extractions raise, the batch extractor goes through
\* the whole list and returns the rows of the non-failing filings, in input
\* order, each tagged with its own filing's doc_id, member_name, office and
\* pdf_url; one failure is logged per failing filing and none of its rows
\* appears. The Senate per-link loop does the same over the links it submits.
C3_FailureIsolation ==
    /\ HouseStageRan =>
        /\ HouseSubmitted = Len(new_filings)
        /\ house_transactions = HouseExpected
        /\ SelectSeq(log, IsHouseFailure) = HouseFailuresExpected
    /\ SenateLoopRan =>
        /\ SenateSubmitted = Cardinality({ i \in 1..Len(s_links) : SenateSubmittedAt(i) })
        /\ CountCalls(calls, "driver.quit") = 1
        /\ [i \in 1..Len(senate_transactions) |-> SenateTags(senate_transactions[i])]
              = SenateExpected
        /\ SelectSeq(log, IsSenateFailure) = SenateFailuresExpected

\* in one run the first House filing and the first Senate link fail and the
\* second of each yields rows
C3_Witness ==
    /\ Len(new_filings) = 2 /\ Len(house_outcomes) = 2
    /\ house_outcomes[1].kind = "raise"
    /\ Len(house_transactions) >= 1
    /\ house_transactions[1].doc_id = new_filings[2].doc_id
    /\ SenateLoopRan
    /\ Len(s_links) = 2 /\ Len(senate_outcomes) = 2
    /\ senate_outcomes[1].kind = "raise"
    /\ Len(senate_transactions) >= 1
    /\ senate_transactions[1].doc_id = s_links[2].doc_id

\* what a run did before the write: everything but the write mode, the write
\* call, its failure and its result
Upstream(s) ==
    LET notWrite(c) == c[1] # "process_transactions_batch"
        notWriteError(e) == e # "write"
    IN  [limit |-> s.limit, include_house |-> s.include_house,
         include_senate |-> s.include_senate, filings |-> s.filings,
         existing_doc_ids |-> s.existing_doc_ids, new_filings |-> s.new_filings,
         s_links |-> s.s_links, max_count |-> s.max_count,
         house_transactions |-> s.house_transactions,
         senate_transactions |-> s.senate_transactions,
         all_transactions |-> s.all_transactions, log |-> s.log,
         calls |-> SelectSeq(s.calls, notWrite),
         errors |-> SelectSeq(s.errors, notWriteError)]

\* C9: a dry run and a real run that meet the same configuration, scrape
\* results, known-ID set and collaborator behaviour make the same scrape,
\* known-ID and extraction calls in the same order and build the same
\* combined list; they differ only in the write.
C9_DryRunSameUpstream ==
    LET real == IF dry_run THEN twin ELSE Cur
        dry  == IF dry_run THEN Cur ELSE twin
    IN  /\ Upstream(real) = Upstream(dry)
        /\ WriteCalls(dry.calls) = 0
        /\ \/ real.pc = dry.pc
           \/ /\ dry.pc = "done" /\ real.pc = "crashed"
              /\ real.errors[Len(real.errors)] = "write"

\* both runs finished with rows from both sources; only one of them wrote
C9_Witness ==
    /\ pc = "done" /\ twin.pc = "done"
    /\ \E i \in DOMAIN all_transactions : all_transactions[i].office = "House"
    /\ \E i \in DOMAIN all_transactions : all_transactions[i].office = "Senate"
    /\ WriteCalls(calls) + WriteCalls(twin.calls) = 1

\* C10: for a list F whose descriptors all have a non-empty doc_id and a set
\* K, filter_new_filings(F, K, 0) is the subsequence of F of the descriptors
\* whose doc_id is not in K, in their order, and F and K are as before.
C10_FilterExact ==
    [][ (f_pc = "call" /\ f_limit = 0
            /\ \A i \in DOMAIN f_filings : ~Falsy(Get(f_filings[i], "doc_id")))
        => /\ f_result' = SelectSeq(f_filings, LAMBDA f : f.doc_id \notin f_known)
           /\ f_filings' = f_filings
           /\ f_known' = f_known ]_vars

\* the call returned two unknown filings out of a list that also held a known one
C10_Witness ==
    /\ f_pc = "returned" /\ f_limit = 0
    /\ \A i \in DOMAIN f_filings : ~Falsy(Get(f_filings[i], "doc_id"))
    /\ Len(f_filings) = 3 /\ Len(f_result) = 2
    /\ f_filings[2].doc_id \in f_known
    /\ f_result[1] # f_result[2]

\* C11: the output of filter_new_filings(F, K, 0) holds no two descriptors
\* with the same doc_id, also when a doc_id occurs more than once in F.
C11_NoDuplicateDocIds ==
    (f_pc = "returned" /\ f_limit = 0)
        => \A i, j \in DOMAIN f_result :
              i # j => Get(f_result[i], "doc_id") # Get(f_result[j], "doc_id")

\* the first n elements of q, all of q when it is shorter
Prefix(q, n) == SubSeq(q, 1, Min2(n, Len(q)))

\* C12: for a limit L > 0, filter_new_filings(F, K, L) has at most L elements
\* and is the first min(L, n) elements of filter_new_filings(F, K, 0), n the
\* length of that unlimited result.
C12_LimitIsPrefix ==
    (f_pc = "returned" /\ f_limit > 0)
        => /\ Len(f_result) <= f_limit
           /\ f_result = Prefix(filter_new_filings(f_filings, f_known, 0), f_limit)

\* the limit cut the result short
C12_Witness ==
    /\ f_pc = "returned" /\ f_limit > 0
    /\ Len(f_result) = f_limit
    /\ Len(filter_new_filings(f_filings, f_known, 0)) > f_limit

\* a descriptor whose doc_id is missing, None or the empty string
Malformed(f) == Falsy(Get(f, "doc_id"))

\* C13: a descriptor whose doc_id is missing, None or empty never appears in
\* the output of filter_new_filings, whatever K and L, and it does not count
\* toward the limit: the call returns the unknown well-formed descriptors, up
\* to the limit.
C13_MalformedDropped ==
    f_pc = "returned"
        => /\ \A i \in DOMAIN f_result : ~Malformed(f_result[i])
           /\ LET wanted == SelectSeq(f_filings,
                               LAMBDA f : ~Malformed(f) /\ Get(f, "doc_id") \notin f_known)
              IN  f_result = IF f_limit > 0 THEN Prefix(wanted, f_limit) ELSE wanted

\* with limit 1, two malformed descriptors of different kinds come first and
\* the well-formed third one is still returned
C13_Witness ==
    /\ f_pc = "returned" /\ f_limit = 1
    /\ Len(f_filings) = 3
    /\ Malformed(f_filings[1]) /\ Malformed(f_filings[2])
    /\ "doc_id" \notin DOMAIN f_filings[1]
    /\ Get(f_filings[2], "doc_id") = None
    /\ f_result = << f_filings[3] >>

\* the browser session exists: webdriver.Chrome was called and returned
SessionCreated ==
    /\ CountCalls(calls, "webdriver.Chrome") = 1
    /\ "senate_session" \notin Range(errors)

\* the calls that use the browser session
UsesSession(c) == c[1] \in {"verify_session", "driver.get"}

\* C14: a browser session the Senate stage created is quit before
\* senate_links_to_transactions returns or raises, once and after its last
\* use, on every exit path; no session, no quit.
C14_SessionReleased ==
    IF SessionCreated
    THEN /\ CountCalls(calls, "driver.quit") = 1
         /\ \A i, j \in DOMAIN calls :
               (UsesSession(calls[i]) /\ calls[j] = <<"driver.quit">>) => i < j
    ELSE CountCalls(calls, "driver.quit") = 0

\* the session was created, verify_session raised and the session was quit
C14_Witness ==
    /\ pc = "crashed" /\ CrashCause = "senate_verify"
    /\ SessionCreated
    /\ calls[Len(calls)] = <<"driver.quit">>

\* C15: when the combined list is empty after both processing stages, the
\* run ends normally with no write, in dry-run and in real mode alike.
C15_EmptyRunEndsQuietly ==
    [][ (pc = "persist" /\ all_transactions = << >>)
        => /\ pc' = "done"
           /\ WriteCalls(calls') = 0
           /\ stats' = [unbound |-> TRUE]
           /\ errors' = errors ]_vars

\* a real run whose two stages both submitted filings and got no row
C15_Witness ==
    /\ pc = "done" /\ ~dry_run /\ all_transactions = << >>
    /\ HouseSubmitted > 0 /\ SenateSubmitted > 0
    /\ WriteCalls(calls) = 0

CanonicalFields ==
    {"doc_id", "member_name", "office", "pdf_url", "ticker", "asset_name",
     "transaction_type", "transaction_date", "amount_low", "amount_high",
     "owner", "comment"}

\* the transaction comes from a parsed row that had no ticker and no raw line
FromSparseRow(tx) == tx.asset_name = RawRowB.company_name

\* C16: every transaction of the combined list, from the House or the Senate
\* path, has exactly the twelve canonical fields; a field the parsed row
\* lacked is there with an empty value (None, or "" for the comment).
C16_TwelveFields ==
    \A i \in DOMAIN all_transactions :
        /\ DOMAIN all_transactions[i] = CanonicalFields
        /\ FromSparseRow(all_transactions[i])
              => /\ all_transactions[i].ticker = None
                 /\ all_transactions[i].comment = ""

\* a House and a Senate transaction both built from the sparse row
C16_Witness ==
    /\ \E i \in DOMAIN all_transactions :
          all_transactions[i].office = "House" /\ FromSparseRow(all_transactions[i])
    /\ \E i \in DOMAIN all_transactions :
          all_transactions[i].office = "Senate" /\ FromSparseRow(all_transactions[i])

\* the stage of main() a collaborator call belongs to
StageOf(c) ==
    CASE c[1] = "scrape_ptr_filings"         -> 1
      [] c[1] = "get_existing_doc_ids"       -> 2
      [] c[1] = "process_ptr_pdf"            -> 3
      [] c[1] \in {"scrape_all_ptr_links", "webdriver.Chrome", "verify_session",
                   "driver.get", "driver.quit"} -> 4
      [] c[1] = "process_transactions_batch" -> 5

\* C17: the calls of a run come in the order scrape House, read known IDs,
\* process House, process Senate, persist; the write is made at most once,
\* after both processing stages, and it is the last call of the run.
C17_StageOrder ==
    /\ \A i, j \in DOMAIN calls : i < j => StageOf(calls[i]) <= StageOf(calls[j])
    /\ \A i \in DOMAIN calls :
          StageOf(calls[i]) \in {3, 4} => CountCalls(SubSeq(calls, 1, i), "get_existing_doc_ids") = 1
    /\ WriteCalls(calls) <= 1
    /\ WriteCalls(calls) = 1
          => /\ pc \in {"done", "crashed"}
             /\ calls[Len(calls)] = <<"process_transactions_batch">>

\* a real run that went through all five stages and wrote once
C17_Witness ==
    /\ pc = "done" /\ WriteCalls(calls) = 1
    /\ CountCalls(calls, "scrape_ptr_filings") = 1
    /\ HouseSubmitted > 0 /\ SenateSubmitted > 0

\* C20: the known-ID set is read once per run and not changed afterwards:
\* the House filter and the Senate filter see the same set, and processing a
\* filing does not add its doc_id.
C20_KnownIdsSnapshot ==
    [][ pc \notin {"scrape_house", "load_known_ids"}
        => /\ existing_doc_ids' = existing_doc_ids
           /\ CountCalls(calls, "get_existing_doc_ids") = 1
           /\ CountCalls(calls', "get_existing_doc_ids") = 1 ]_vars

\* both stages processed filings after a non-empty set had been read
C20_Witness ==
    /\ pc = "done" /\ existing_doc_ids # {}
    /\ HouseSubmitted > 0 /\ SenateSubmitted > 0
    /\ CountCalls(calls, "get_existing_doc_ids") = 1

\* the doc_ids of the links handed to driver.get, in call order
SenateSubmittedIds ==
    LET gets == SelectSeq(calls, LAMBDA c : c[1] = "driver.get")
    IN  [k \in 1..Len(gets) |-> gets[k][2]]

\* the doc_ids of the links that have both a doc_id and a url, in list order
SenateWellFormedIds ==
    LET wf == SelectSeq(s_links, LAMBDA l : ~Falsy(l.doc_id) /\ ~Falsy(l.url))
    IN  [k \in 1..Len(wf) |-> wf[k].doc_id]

\* C18: with a quota max_count > 0 the Senate loop submits the first
\* max_count well-formed links and no more, whatever their extractions do (a
\* link that raises or has no text uses up its unit); links without doc_id
\* or url use none; with max_count = 0 every well-formed link is submitted.
C18_SenateQuotaCountsAttempts ==
    SenateLoopRan
        => /\ max_count > 0 =>
                /\ SenateSubmitted <= max_count
                /\ SenateSubmittedIds = Prefix(SenateWellFormedIds, max_count)
           /\ max_count = 0 => SenateSubmittedIds = SenateWellFormedIds
           /\ Len(senate_outcomes) = SenateSubmitted

\* quota 1, two well-formed links: the first one raised and the second one
\* was not submitted in its place
C18_Witness ==
    /\ SenateLoopRan /\ max_count = 1
    /\ Len(SenateWellFormedIds) = 2
    /\ senate_outcomes = << [kind |-> "raise"] >>
    /\ SenateSubmittedIds = << SenateWellFormedIds[1] >>

\* C19: whatever the scanner, the parser, the download and the local text
\* extraction do, process_ptr_pdf returns a mapping whose only key is
\* transactions and whose value is a list; the list is empty whenever the
\* scanner is not imported or the primary path raised.
C19_PdfNeverRaises ==
    p_pc = "returned"
        => /\ DOMAIN p_result = {"transactions"}
           /\ DOMAIN p_result.transactions = 1..Len(p_result.transactions)
           /\ (~p_input.scanner_available \/ p_input.scan.kind # "rows")
                  => p_result.transactions = << >>

\* the scanner raised, the download worked and the document has text: the
\* fallback ran to its last line and returned no rows
C19_Witness ==
    /\ p_pc = "returned"
    /\ p_input.scanner_available /\ p_input.scan.kind = "raise"
    /\ p_input.download_ok /\ p_input.pdf.kind = "pages"
    /\ strip(_extract_pdf_text(p_input.pdf)) # << >>
    /\ p_result = [transactions |-> << >>]

====
